---- MODULE Spec2Model ----
(***************************************************************************)
(* Model of scripts/update_readme.py: list the tracked files, read each    *)
(* one into a summary, send the summary to the text-generation provider,   *)
(* and overwrite README.md with a non-empty answer.                        *)
(*                                                                         *)
(* Text is a sequence of symbols.  A symbol stands for one character; the  *)
(* named atoms ("README.md", "SYSTEM_PROMPT", "Codebase files:", the error *)
(* messages) stand for a fixed run of ordinary characters that contains no *)
(* line break.  File data is the same kind of sequence, read as bytes.     *)
(***************************************************************************)
EXTENDS Integers, Sequences, FiniteSets, TLC

\* ------------------------------------------------------------------ bounds
MaxFiles == 2
MaxRuns == 2

\* ----------------------------------------------------------------- symbols
LF == "\n"
CR == "\r"
\* a byte sequence that is not valid UTF-8 (binary file content)
BADBYTE == "0xFF"
\* a character the encoding of the output file cannot encode (a lone
\* surrogate under UTF-8, any non-ASCII character under a legacy locale)
UNENC == "U+D800"
\* a non-ASCII character in a path name, which git prints quoted
NONASCII == "U+00E9"

Range(s) == {s[i] : i \in 1..Len(s)}

SYSTEM_PROMPT == <<"SYSTEM_PROMPT">>

README == <<"README.md">>
PathA == <<"a">>
PathB == <<"b">>
PathU == <<NONASCII>>
Paths == {PathA, PathB, PathU, README}

\* ---------------------------------------------------------- pure functions
\* str.splitlines(): break at \n, \r\n and \r; no empty last line
RECURSIVE SplitFrom(_, _)
SplitFrom(s, cur) ==
  IF s = <<>> THEN (IF cur = <<>> THEN <<>> ELSE <<cur>>)
  ELSE IF Head(s) = LF THEN <<cur>> \o SplitFrom(Tail(s), <<>>)
  ELSE IF Head(s) = CR
       THEN <<cur>> \o SplitFrom(IF Tail(s) # <<>> /\ Head(Tail(s)) = LF
                                 THEN Tail(Tail(s)) ELSE Tail(s), <<>>)
  ELSE SplitFrom(Tail(s), Append(cur, Head(s)))

\* str.split("\n"): break at \n only and keep the last, possibly empty, piece
RECURSIVE SplitKeepLast(_, _)
SplitKeepLast(s, cur) ==
  IF s = <<>> THEN <<cur>>
  ELSE IF Head(s) = LF THEN <<cur>> \o SplitKeepLast(Tail(s), <<>>)
  ELSE SplitKeepLast(Tail(s), Append(cur, Head(s)))

splitlines_split(s) == SplitKeepLast(s, <<>>)

splitlines(s) == SplitFrom(s, <<>>)

\* git prints a path with a non-ASCII byte in double quotes, octal-escaped
QuotePath(p) ==
  IF NONASCII \in Range(p)
  THEN <<"\"">> \o [i \in 1..Len(p) |-> IF p[i] = NONASCII THEN "\\303\\251" ELSE p[i]] \o <<"\"">>
  ELSE p

\* the standard output of "git ls-files": one (quoted) path per line
RECURSIVE LsFilesOutput(_)
LsFilesOutput(ix) ==
  IF ix = <<>> THEN <<>>
  ELSE QuotePath(Head(ix)) \o <<LF>> \o LsFilesOutput(Tail(ix))

\* text-mode read: \r\n and \r become \n
RECURSIVE UniversalNewlines(_)
UniversalNewlines(b) ==
  IF b = <<>> THEN <<>>
  ELSE IF Head(b) = CR
       THEN <<LF>> \o UniversalNewlines(IF Tail(b) # <<>> /\ Head(Tail(b)) = LF
                                        THEN Tail(Tail(b)) ELSE Tail(b))
  ELSE <<Head(b)>> \o UniversalNewlines(Tail(b))

\* ------------------------------------------------------------- file system
Missing == [st |-> "missing", data |-> <<>>]
Denied == [st |-> "denied", data |-> <<>>]
File(d) == [st |-> "file", data |-> d]

FileState(f, name) == IF name \in DOMAIN f THEN f[name] ELSE Missing

\* open(file, "r", encoding="utf-8") and f.read(): the text, or the exception
ReadFileText(f, name) ==
  LET s == FileState(f, name) IN
  IF s.st = "missing" THEN [ok |-> FALSE, val |-> <<"ENOENT">>]
  ELSE IF s.st = "denied" THEN [ok |-> FALSE, val |-> <<"EACCES">>]
  ELSE IF BADBYTE \in Range(s.data) THEN [ok |-> FALSE, val |-> <<"UnicodeDecodeError">>]
  ELSE [ok |-> TRUE, val |-> UniversalNewlines(s.data)]

ErrorPlaceholder(e) == <<"Error reading file: ">> \o e

\* lines 25-29: the text of one entry, the placeholder on any exception
Content(f, name) ==
  LET r == ReadFileText(f, name) IN
  IF r.ok THEN r.val ELSE ErrorPlaceholder(r.val)

Header(file) == <<"-", "-", "-", " ">> \o file \o <<" ", "-", "-", "-", LF>>

\* line 30
Entry(file, content) == Header(file) \o content \o <<LF, LF>>

\* line 53
full_prompt(codebase_context) == <<"Codebase files:", LF>> \o codebase_context

\* line 38-41
Messages(prompt) == [system |-> SYSTEM_PROMPT, user |-> prompt]

\* the output encoding has no bytes for UNENC; every other symbol is written
\* as it is (POSIX: "\n" is not translated on write)
Encodable(text) == UNENC \notin Range(text)

\* "is not None" in place of the truth value
Truthy_notNone(r) == r.kind = "text"

\* line 56: the truth value of the provider's answer
Truthy(r) == r.kind = "text" /\ r.text # <<>>

\* ------------------------------------------------------------ environment
\* what the index of the repository can list, duplicates included (git lists
\* an unmerged path once per stage)
Listings == UNION {[1..n -> Paths] : n \in 0..MaxFiles}

OldReadme == <<"o", "l", "d", LF>>
\* a file whose second line has the form of a path header
HeaderLike == <<"x", LF>> \o Header(PathB) \o <<"y">>

FileSystems ==
  {[p \in Paths |->
      IF p = PathA THEN a ELSE IF p = PathB THEN b
      ELSE IF p = README THEN r ELSE File(<<"z">>)] :
     a \in {File(<<"x">>), File(<<"x", CR, LF, "y">>), File(HeaderLike),
            File(<<"x", BADBYTE>>), Missing},
     b \in {File(<<"y", LF>>), Denied},
     r \in {File(OldReadme), Missing, Denied}}

TextNew == <<"n", "e", "w", LF>>
TextAlt == <<"a", "l", "t">>
TextUnenc == <<"n", UNENC>>
Texts == {<<>>, TextNew, TextAlt, TextUnenc}

Pending == [kind |-> "pending", text |-> <<>>]
NoPrev == [valid |-> FALSE, user |-> <<>>, resp |-> Pending, out |-> <<>>]

SuccessMsg == "README.md has been updated."
FailureMsg == "Failed to update README.md."

\* ------------------------------------------------------------------ state
VARIABLES
  index,     \* the paths the repository's index lists (environment)
  fs,        \* the working tree: path -> file state
  run,       \* number of the current invocation of the script
  pc,        \* position of the current run
  at,        \* where the run ended in an exception or was killed
  fs0,       \* the working tree when the current run started
  files,     \* line 22
  summary,   \* line 23, 30
  reads,     \* the names opened for reading in this run, in order
  listCalls, \* invocations of git ls-files in this run
  requests,  \* requests submitted to the provider in this run
  resp,      \* the provider's answer of this run
  writes,    \* times README.md was opened for writing in this run
  out,       \* lines printed in this run
  prev       \* the previous run: its prompt, answer and printed lines

vars == <<index, fs, run, pc, at, fs0, files, summary, reads, listCalls,
          requests, resp, writes, out, prev>>

env == <<index, run, fs0, prev>>

Init ==
  /\ index \in Listings
  /\ fs \in FileSystems
  /\ run = 1
  /\ pc = "import"
  /\ at = "none"
  /\ fs0 = fs
  /\ files = <<>>
  /\ summary = <<>>
  /\ reads = <<>>
  /\ listCalls = 0
  /\ requests = <<>>
  /\ resp = Pending
  /\ writes = 0
  /\ out = <<>>
  /\ prev = NoPrev

\* line 8: the client is constructed when the module is loaded; a missing
\* credential makes the constructor raise
Import ==
  /\ pc = "import"
  /\ \E ok \in BOOLEAN :
       IF ok THEN pc' = "list" /\ at' = at
       ELSE pc' = "fatal" /\ at' = "import"
  /\ UNCHANGED <<env, fs, files, summary, reads, listCalls, requests, resp, writes, out>>

\* the failure of the listing taken for an empty listing
ListFiles_swallow ==
  /\ pc = "list"
  /\ listCalls' = listCalls + 1
  /\ \E ok \in BOOLEAN :
       /\ files' = IF ok THEN splitlines(LsFilesOutput(index)) ELSE <<>>
       /\ summary' = <<>>
       /\ pc' = "read"
       /\ at' = IF ok THEN at ELSE "list"
  /\ UNCHANGED <<env, fs, reads, requests, resp, writes, out>>

\* lines 22-23: check_output raises when git is missing or exits non-zero
ListFiles ==
  /\ pc = "list"
  /\ listCalls' = listCalls + 1
  /\ \E ok \in BOOLEAN :
       IF ok
       THEN /\ files' = splitlines(LsFilesOutput(index))
            /\ summary' = <<>>
            /\ pc' = "read"
            /\ at' = at
       ELSE /\ pc' = "fatal"
            /\ at' = "list"
            /\ UNCHANGED <<files, summary>>
  /\ UNCHANGED <<env, fs, reads, requests, resp, writes, out>>

\* no try/except around the read
ReadFile_raise ==
  /\ pc = "read"
  /\ Len(reads) < Len(files)
  /\ LET file == files[Len(reads) + 1] IN
       /\ reads' = Append(reads, file)
       /\ IF ReadFileText(fs, file).ok
          THEN /\ summary' = summary \o Entry(file, Content(fs, file))
               /\ UNCHANGED <<pc, at>>
          ELSE /\ pc' = "fatal"
               /\ at' = "read"
               /\ summary' = summary
  /\ UNCHANGED <<env, fs, files, listCalls, requests, resp, writes, out>>

\* the file opened with "w+" in place of "r"
ReadFile_truncate ==
  /\ pc = "read"
  /\ Len(reads) < Len(files)
  /\ LET file == files[Len(reads) + 1]
         f2 == IF file \in DOMAIN fs /\ fs[file].st # "denied"
               THEN [fs EXCEPT ![file] = File(<<>>)] ELSE fs IN
       /\ reads' = Append(reads, file)
       /\ fs' = f2
       /\ summary' = summary \o Entry(file, Content(f2, file))
  /\ UNCHANGED <<env, pc, at, files, listCalls, requests, resp, writes, out>>

\* lines 24-30: one iteration of the loop
ReadFile ==
  /\ pc = "read"
  /\ Len(reads) < Len(files)
  /\ LET file == files[Len(reads) + 1] IN
       /\ reads' = Append(reads, file)
       /\ summary' = summary \o Entry(file, Content(fs, file))
  /\ UNCHANGED <<env, fs, pc, at, files, listCalls, requests, resp, writes, out>>

\* the request submitted from inside the loop
SendRequest_early ==
  /\ pc = "read"
  /\ requests' = Append(requests, Messages(full_prompt(summary)))
  /\ pc' = "await"
  /\ UNCHANGED <<env, fs, at, files, summary, reads, listCalls, resp, writes, out>>

\* lines 31, 51-53, 38-46: the loop is over; the request is submitted
SendRequest ==
  /\ pc = "read"
  /\ Len(reads) = Len(files)
  /\ requests' = Append(requests, Messages(full_prompt(summary)))
  /\ pc' = "await"
  /\ UNCHANGED <<env, fs, at, files, summary, reads, listCalls, resp, writes, out>>

\* the exception caught and reported as a failed update
ProviderRaises_caught ==
  /\ pc = "await"
  /\ \E k \in {"raise", "nochoices"} : resp' = [kind |-> k, text |-> <<>>]
  /\ pc' = "done"
  /\ at' = "call"
  /\ out' = Append(out, FailureMsg)
  /\ UNCHANGED <<env, fs, files, summary, reads, listCalls, requests, writes>>

\* one more attempt after the first exception
ProviderRaises_retry ==
  /\ pc = "await"
  /\ \E k \in {"raise", "nochoices"} : resp' = [kind |-> k, text |-> <<>>]
  /\ IF Len(requests) < 2
     THEN /\ requests' = Append(requests, Messages(full_prompt(summary)))
          /\ UNCHANGED <<pc, at>>
     ELSE /\ pc' = "fatal"
          /\ at' = "call"
          /\ requests' = requests
  /\ UNCHANGED <<env, fs, files, summary, reads, listCalls, writes, out>>

\* line 43 raises (transport, authentication), or line 47 raises on an
\* answer without choices; nothing catches it
ProviderRaises ==
  /\ pc = "await"
  /\ \E k \in {"raise", "nochoices"} : resp' = [kind |-> k, text |-> <<>>]
  /\ pc' = "fatal"
  /\ at' = "call"
  /\ UNCHANGED <<env, fs, files, summary, reads, listCalls, requests, writes, out>>

\* lines 47, 55-56, 60-61: the answer is a string or None
ProviderReturns ==
  /\ pc = "await"
  /\ \E r \in {[kind |-> "none", text |-> <<>>]} \cup {[kind |-> "text", text |-> t] : t \in Texts} :
       /\ resp' = r
       /\ IF Truthy(r)
          THEN pc' = "open" /\ out' = out
          ELSE pc' = "done" /\ out' = Append(out, FailureMsg)
  /\ UNCHANGED <<env, fs, at, files, summary, reads, listCalls, requests, writes>>

\* mode "a" in place of "w"
OpenReadme_append ==
  /\ pc = "open"
  /\ writes' = writes + 1
  /\ IF FileState(fs, README).st = "denied"
     THEN pc' = "fatal" /\ at' = "open" /\ fs' = fs
     ELSE /\ pc' = "write"
          /\ at' = at
          /\ fs' = [fs EXCEPT ![README] = File(FileState(fs, README).data)]
  /\ UNCHANGED <<env, files, summary, reads, listCalls, requests, resp, out>>

\* line 57: open("README.md", "w") creates or truncates the file
OpenReadme ==
  /\ pc = "open"
  /\ writes' = writes + 1
  /\ IF FileState(fs, README).st = "denied"
     THEN pc' = "fatal" /\ at' = "open" /\ fs' = fs
     ELSE pc' = "write" /\ at' = at /\ fs' = [fs EXCEPT ![README] = File(<<>>)]
  /\ UNCHANGED <<env, files, summary, reads, listCalls, requests, resp, out>>

\* lines 58-59: write, close, print; an unencodable character makes
\* f.write raise before any byte reaches the file
WriteReadme ==
  /\ pc = "write"
  /\ IF Encodable(resp.text)
     THEN /\ fs' = [fs EXCEPT ![README] = File(fs[README].data \o resp.text)]
          /\ out' = Append(out, SuccessMsg)
          /\ pc' = "done"
          /\ at' = at
     ELSE /\ pc' = "fatal"
          /\ at' = "write"
          /\ UNCHANGED <<fs, out>>
  /\ UNCHANGED <<env, files, summary, reads, listCalls, requests, resp, writes>>

Running == {"import", "list", "read", "await", "open", "write"}
Ended == {"done", "fatal", "killed"}

\* an external signal ends the process wherever it is
Kill ==
  /\ pc \in Running
  /\ pc' = "killed"
  /\ at' = pc
  /\ UNCHANGED <<env, fs, files, summary, reads, listCalls, requests, resp, writes, out>>

\* lines 63-64: the script is invoked again on the working tree as it is
NextRun ==
  /\ pc \in Ended
  /\ run < MaxRuns
  /\ run' = run + 1
  /\ prev' = [valid |-> TRUE,
              user |-> IF requests = <<>> THEN <<>> ELSE requests[1].user,
              resp |-> resp,
              out |-> out]
  /\ fs0' = fs
  /\ pc' = "import"
  /\ at' = "none"
  /\ files' = <<>>
  /\ summary' = <<>>
  /\ reads' = <<>>
  /\ listCalls' = 0
  /\ requests' = <<>>
  /\ resp' = Pending
  /\ writes' = 0
  /\ out' = <<>>
  /\ UNCHANGED <<index, fs>>

Next ==
  \/ Import
  \/ ListFiles
  \/ ReadFile
  \/ SendRequest
  \/ ProviderRaises
  \/ ProviderReturns
  \/ OpenReadme
  \/ WriteReadme
  \/ Kill
  \/ NextRun

Spec == Init /\ [][Next]_vars

TypeOK == pc \in Running \cup Ended

\* ------------------------------------------------------ operators of claims
ReadmeIs(f, text) == FileState(f, README) = File(text)

\* the summary the collector owes for a list of names, by recursion on the list
RECURSIVE SummaryOf(_, _)
SummaryOf(f, names) ==
  IF names = <<>> THEN <<>>
  ELSE Entry(Head(names), Content(f, Head(names))) \o SummaryOf(f, Tail(names))

\* a line of the form "--- <name> ---"
IsHeaderLine(l) ==
  /\ Len(l) >= 8
  /\ SubSeq(l, 1, 4) = <<"-", "-", "-", " ">>
  /\ SubSeq(l, Len(l) - 3, Len(l)) = <<" ", "-", "-", "-">>

HeaderCount(text) ==
  LET ls == SplitKeepLast(text, <<>>) IN
  Cardinality({i \in 1..Len(ls) : IsHeaderLine(ls[i])})

RECURSIVE HeaderLinesIn(_, _)
HeaderLinesIn(f, names) ==
  IF names = <<>> THEN 0
  ELSE HeaderCount(Content(f, Head(names))) + HeaderLinesIn(f, Tail(names))

Collected == requests # <<>>

\* the provider answered the two last runs as a function of the prompt does
Deterministic ==
  prev.valid /\ requests # <<>> /\ (prev.user = requests[1].user => prev.resp = resp)

Rank(p) ==
  CASE p = "import" -> 0 [] p = "list" -> 1 [] p = "read" -> 2
    [] p = "await" -> 3 [] p = "open" -> 4 [] p = "write" -> 5
    [] OTHER -> 6

\* ------------------------------------------------------------------ claims

\* C1: in every run whose listing succeeds and whose provider returns a
\* non-empty string S (README.md being writable), README.md holds exactly S
\* after the run and the success message is printed.
C1_WrittenVerbatim ==
  (/\ pc \in {"done", "fatal"}
   /\ resp.kind = "text" /\ resp.text # <<>>
   /\ FileState(fs0, README).st # "denied")
    => (ReadmeIs(fs, resp.text) /\ out = <<SuccessMsg>>)

\* C2: when the provider returns None or the empty string, the run ends
\* normally, README.md and every other file are as before the run, and the
\* failure message is printed.
C2_EmptyAnswerKeepsReadme ==
  (resp.kind = "none" \/ (resp.kind = "text" /\ resp.text = <<>>))
    => (pc = "done" /\ at = "none" /\ fs = fs0 /\ writes = 0 /\ out = <<FailureMsg>>)

C2_Witness ==
  /\ pc = "done"
  /\ resp = [kind |-> "text", text |-> <<>>]
  /\ ReadmeIs(fs, OldReadme)
  /\ Len(reads) = 2

\* C3: when the provider call raises, the run ends in a fatal error at the
\* call, README.md is as before the run, nothing was printed, and the one
\* request was not repeated.
C3_ProviderErrorIsFatal ==
  (resp.kind \in {"raise", "nochoices"})
    => (pc = "fatal" /\ at = "call" /\ fs = fs0 /\ out = <<>>
        /\ Len(requests) = 1 /\ writes = 0)

C3_Witness ==
  /\ pc = "fatal"
  /\ resp.kind = "raise"
  /\ ReadmeIs(fs, OldReadme)
  /\ Len(reads) = 2

\* C4: when the listing command fails, the run ends in a fatal error, no
\* file was modified, no tracked file was read and no request was sent.
C4_ListingFailureIsFatal ==
  (at = "list" /\ pc # "killed")
    => (pc = "fatal" /\ fs = fs0 /\ listCalls = 1 /\ reads = <<>>
        /\ requests = <<>> /\ writes = 0 /\ out = <<>>)

C4_Witness ==
  /\ pc = "fatal"
  /\ at = "list"
  /\ Len(index) = 2
  /\ ReadmeIs(fs, OldReadme)

\* C5 as stated: the collector's output has exactly N lines of header
\* form for a listing of N entries, whatever the files contain.
C5_ExactlyNHeaders ==
  Collected => HeaderCount(summary) = Len(index)

\* C5 as amended: the output is the concatenation, in listing order, of one
\* entry per listed name (header, text of the file or placeholder, blank
\* line); its lines of header form are those N headers and the lines of
\* header form inside the files' own text.
C5_OneEntryPerListedName ==
  Collected =>
    /\ Len(files) = Len(index)
    /\ \A i \in 1..Len(index) : files[i] = QuotePath(index[i])
    /\ summary = SummaryOf(fs0, files)
    /\ HeaderCount(summary) = Len(index) + HeaderLinesIn(fs0, files)

C5_Witness ==
  /\ Collected
  /\ index = <<PathA, PathB>>
  /\ fs0[PathA] = File(HeaderLike)
  /\ HeaderCount(summary) = 3

\* C6: a file that cannot be read never ends the run: its entry is in the
\* summary with the error placeholder as its content, the files listed
\* after it are collected too, and the request carries all of them.
C6_ReadErrorsAbsorbed ==
  /\ pc = "fatal" => at # "read"
  /\ \A i \in 1..Len(reads) :
       LET r == ReadFileText(fs0, files[i])
           off == Len(SummaryOf(fs0, SubSeq(files, 1, i - 1)))
           e == Entry(files[i], ErrorPlaceholder(r.val)) IN
       ~r.ok => /\ Len(summary) >= off + Len(e)
                /\ SubSeq(summary, off + 1, off + Len(e)) = e
  /\ Collected => /\ Len(reads) = Len(files)
                  /\ requests[1].user = full_prompt(summary)

C6_Witness ==
  /\ pc = "await"
  /\ files = <<PathA, PathB>>
  /\ fs0[PathA] = File(<<"x", BADBYTE>>)
  /\ fs0[PathB] = File(<<"y", LF>>)

\* C7 as stated: after two runs in succession that both report success,
\* with a provider that answers as a function of its input, README.md holds
\* the text the provider returned, the same in both runs, also when
\* README.md is a tracked file.
C7_TwiceSameText ==
  (pc = "done" /\ Deterministic /\ prev.out = <<SuccessMsg>> /\ out = <<SuccessMsg>>)
    => ReadmeIs(fs, prev.resp.text)

\* C7 as amended: after two runs in succession the second of which reports
\* success, README.md holds exactly the text returned in the second run;
\* when README.md is not a listed file and the provider answers as a
\* function of its input, both runs send the same prompt and that text is
\* the text of the first run too.
C7_SecondRunOverwrites ==
  (pc = "done" /\ prev.valid /\ out = <<SuccessMsg>>)
    => /\ ReadmeIs(fs, resp.text)
       /\ (Deterministic /\ prev.out = <<SuccessMsg>> /\ README \notin Range(files))
            => (prev.user = requests[1].user /\ ReadmeIs(fs, prev.resp.text))

C7_Witness ==
  /\ pc = "done"
  /\ Deterministic
  /\ prev.out = <<SuccessMsg>>
  /\ out = <<SuccessMsg>>
  /\ files = <<PathA, PathB>>
  /\ prev.resp.text = TextNew
  /\ ReadmeIs(fs, TextNew)
  /\ ReadmeIs(fs0, TextNew)

\* C8: within one run the listing is invoked at most once, each entry of
\* the listing is read at most once and in order, at most one request is
\* sent, and README.md is opened for writing at most once.
C8_AtMostOnce ==
  /\ listCalls <= 1
  /\ Len(reads) <= Len(files)
  /\ \A i \in 1..Len(reads) : reads[i] = files[i]
  /\ Len(requests) <= 1
  /\ writes <= 1

C8_Witness ==
  /\ pc = "fatal"
  /\ at = "call"
  /\ Len(reads) = 2
  /\ Len(requests) = 1

C9_Order ==
  /\ reads # <<>> => listCalls = 1
  /\ Collected => /\ listCalls = 1
                  /\ reads = files
                  /\ summary = SummaryOf(fs0, files)
                  /\ requests[1] = [system |-> SYSTEM_PROMPT,
                                    user |-> <<"Codebase files:", LF>> \o summary]
  /\ resp # Pending => Collected
  /\ writes > 0 => (Collected /\ resp.kind = "text" /\ resp.text # <<>>)
  /\ fs # fs0 => writes > 0

\* C9: a run goes through its phases in one order and never back: listing,
\* reading, the request, the write; the request is sent after every listed
\* file was collected and carries the instruction and the whole summary;
\* README.md is opened for writing only after the answer has arrived.
C9_PhaseOrder ==
  /\ []C9_Order
  /\ [][run' = run => Rank(pc') >= Rank(pc)]_vars

C9_Witness ==
  /\ pc = "write"
  /\ Len(reads) = 2
  /\ resp.text = TextNew

\* C10: at every point of a run before README.md is opened for writing,
\* also in a run that was killed or ended in an error there, README.md and
\* every tracked file hold the content they had when the run started.
C10_NoWriteBeforeTheWrite ==
  (\/ pc \in {"import", "list", "read", "await", "open"}
   \/ (pc \in {"fatal", "killed"} /\ at \in {"import", "list", "read", "await", "call", "open"}))
    => fs = fs0

C10_Witness ==
  /\ pc = "killed"
  /\ at = "await"
  /\ Len(reads) = 2
  /\ \E i \in 1..2 : ~ReadFileText(fs0, files[i]).ok
  /\ fs = fs0

====
